---- MODULE Spec2Model ----
(***************************************************************************)
(* Model of the rotation-tolerant JWT-bearer token acquisition of          *)
(* sf_kpi_jwt_runner.py: the key ring built from the environment, the      *)
(* learned-preference snapshot file (load_keymap / save_keymap) and the    *)
(* ordered-fallback loop of get_access_token_via_jwt.                      *)
(*                                                                         *)
(* A run of the script is: the module-level configuration checks, then one *)
(* call of get_access_token_via_jwt.  Two OS processes (one per tenant)    *)
(* share the snapshot file; in Spec at most one run is in flight at a time.*)
(***************************************************************************)
EXTENDS Integers, Sequences, FiniteSets, TLC

\* ---------------------------------------------------------------- bounds
MaxParts == 2      \* comma-separated parts of SF_KEYS
MaxCalls == 2      \* runs of the script, all processes together
MaxRing == 3       \* entries of a ring handed to the ordering alone
MaxDomain == 3     \* tokens of the SF_DOMAIN variable
MaxText == 6       \* characters of SF_KEYS when it is parsed as text

\* ------------------------------------------------------------ value sets
\* script instances that can be running; Spec runs one at a time (spec
\* section 5: at most one acquisition in flight), so it only ever uses "p1"
Procs == {"p1", "p2"}

Sequential == {"p1"}

\* TENANT_ID of each process (line 22)
TENANT_ID == [p \in Procs |-> IF p = "p1" THEN "t1" ELSE "t2"]

Tenants == {TENANT_ID[p] : p \in Procs}

\* key ids that can be written in SF_KEYS; "" is the id of a part ":path"
KeyIds == {"", "a", "b"}

\* Python None: what dict.get returns for a missing key, and the initial last_err
None == "<None>"

\* values a snapshot can hold for a tenant; "z" is an id no ring entry has
HintVals == KeyIds \cup {"z"}

\* one comma-separated part of SF_KEYS, after strip():
\*   blank   : empty                      (line 59)
\*   nocolon : text without ':'           (line 61)
\*   pair    : "kid:path"                 (line 63)
Parts == [kind : {"blank", "nocolon"}, kid : {""}] \cup [kind : {"pair"}, kid : KeyIds]

RECURSIVE SeqsUpTo(_, _)
SeqsUpTo(S, n) ==
    IF n = 0 THEN {<<>>}
    ELSE LET shorter == SeqsUpTo(S, n - 1)
         IN  shorter \cup {Append(s, x) : s \in {t \in shorter : Len(t) = n - 1}, x \in S}

HasPair(s) == \E i \in 1..Len(s) : s[i].kind = "pair"

\* key ids are opaque labels that the code only compares for equality, so a
\* specification is taken up to renaming: "b" is used only after "a"
Canonical(s) ==
    \A i \in 1..Len(s) : s[i].kid = "b" => \E j \in 1..(i - 1) : s[j].kid = "a"

\* SF_KEYS as the sequence of its parts; <<>> is the empty string.  The string
\* is stripped as a whole (line 21), so a lone blank part is the empty string.
KeySpecs ==
    {s \in SeqsUpTo(Parts, MaxParts) :
        /\ ~(Len(s) = 1 /\ s[1].kind = "blank")
        /\ Canonical(s)}

\* environment of a run: identity present (lines 15-16), KEYS for the variable
\* SF_KEYS (line 21), and PRIVATE_KEY_PATH: whether SF_PRIVATE_KEY_PATH is set
\* (line 18).  SF_PRIVATE_KEY_PATH is read only when SF_KEYS is empty (lines 30
\* and 65); it is varied where it can matter: when SF_KEYS yields no pair
Configs ==
    {c \in [ident : BOOLEAN, KEYS : KeySpecs, PRIVATE_KEY_PATH : BOOLEAN] :
        HasPair(c.KEYS) => ~c.PRIVATE_KEY_PATH}

\* content of the file at KEYMAP_PATH
\*   absent  : no file, or not readable
\*   corrupt : not JSON
\*   nondict : JSON, but not an object (a list, a string, a number, null)
\*   dict    : a JSON object; map gives the value per tenant, None when missing
EmptyMap == [t \in Tenants |-> None]

Snapshots ==
    [kind : {"absent", "corrupt", "nondict"}, map : {EmptyMap}]
    \cup [kind : {"dict"}, map : [Tenants -> HintVals \cup {None}]]

\* snapshots the runs start from: every value for the tenant of the sequential
\* instance; an object also holds an entry of the other tenant
InitSnapshots == {d \in Snapshots : d.kind = "dict" => d.map["t2"] = "z"}

\* what one iteration of the candidate loop can meet (lines 93-125)
\*   keyerr    : open() or jwt.encode raises             -> nothing posted
\*   transport : requests.post raises, or resp.ok and resp.json() raises
\*   httpfail  : response with not resp.ok
\*   badbody   : resp.ok, JSON without access_token / instance_url
\*   ok        : resp.ok, JSON with both fields
Outcomes == {"keyerr", "transport", "httpfail", "badbody", "ok"}

\* what save_keymap can meet (lines 42-47)
\*   ok      : file rewritten
\*   noopen  : mkdir or open raises, the file is untouched
\*   partial : open(..., "w") truncated the file and the dump raised
SaveOutcomes == {"ok", "noopen", "partial"}

NoEntry == [kid |-> None, path |-> -1]

NoErr == [kind |-> None, at |-> NoEntry]

\* nothing learned: the last finished run of the process returned no token
NoLearned ==
    [by |-> NoEntry, saved |-> FALSE, moved |-> FALSE,
     disk |-> [kind |-> "absent", map |-> EmptyMap]]

NoResult == [kind |-> None, tenant |-> None, by |-> NoEntry, err |-> NoErr]

VARIABLES
    cfg,            \* environment variables of the runs
    disk,           \* content of the snapshot file
    pc,             \* position of each script instance
    keyring,        \* parse_keyring() of the run
    keymap,         \* the loaded record (local variable keymap)
    preferred_kid,  \* keymap.get(TENANT_ID)
    ordered,        \* attempt order
    idx,            \* next index of ordered to try
    last_err,       \* last_err
    result,         \* how the run ended: token, RuntimeError, SystemExit, crash
    attempts,       \* entries whose key file the run has opened, in order
    outcome,        \* what the latest iteration of the loop met
    nsaves,         \* calls of save_keymap in this run
    lastsave,       \* what the latest call of save_keymap met
    snap0,          \* snapshot file when the run loaded it
    ncalls,         \* runs started so far
    learned,        \* per instance: what its last finished run learned
    working,        \* key locations whose assertion the provider accepts now
    arg,            \* input of the function under study (function specifications)
    ret             \* its result

\* what the runs of Spec neither read nor change
aux == <<working, arg, ret>>

vars == <<cfg, disk, pc, keyring, keymap, preferred_kid, ordered, idx, last_err,
          result, attempts, outcome, nsaves, lastsave, snap0, ncalls, learned,
          working, arg, ret>>

\* ------------------------------------------------------- pure functions

\* Python truthiness of a string-or-None value
Truthy(v) == v # None /\ v # ""

\* parse_keyring (lines 49-67): the entry of part i keeps i as its location
RECURSIVE parse_parts(_, _)
parse_parts(parts, i) ==
    IF i > Len(parts) THEN <<>>
    ELSE IF parts[i].kind = "pair"
         THEN <<[kid |-> parts[i].kid, path |-> i]>> \o parse_parts(parts, i + 1)
         ELSE parse_parts(parts, i + 1)

parse_keyring(c) ==
    IF c.KEYS # <<>> THEN parse_parts(c.KEYS, 1)
    ELSE IF c.PRIVATE_KEY_PATH THEN <<[kid |-> "default", path |-> 0]>>
    ELSE <<>>

\* the comprehensions of line 87 without their filters
Matching_unfiltered(ring, k, want) == ring

\* [pair for pair in keyring if pair[0] == k] and its complement (line 87)
RECURSIVE Matching(_, _, _)
Matching(ring, k, want) ==
    IF ring = <<>> THEN <<>>
    ELSE LET rest == Matching(Tail(ring), k, want)
         IN  IF (Head(ring).kid = k) = want THEN <<Head(ring)>> \o rest ELSE rest

\* the else branch of line 88 left out: ordered stays [] without a hint
Ordered_no_else(ring, pref) ==
    IF Truthy(pref) THEN Matching(ring, pref, TRUE) \o Matching(ring, pref, FALSE)
    ELSE <<>>

\* the second comprehension of line 87 left out: only the entries the hint
\* names are kept
Ordered_matching_only(ring, pref) ==
    IF Truthy(pref) THEN Matching(ring, pref, TRUE) ELSE ring

\* the second comprehension of line 87 without its filter: the entries the
\* hint names come first and then the whole ring again
Ordered_hinted_twice(ring, pref) ==
    IF Truthy(pref) THEN Matching(ring, pref, TRUE) \o ring ELSE ring

\* lines 85-89
Ordered(ring, pref) ==
    IF Truthy(pref) THEN Matching(ring, pref, TRUE) \o Matching(ring, pref, FALSE)
    ELSE ring

\* load_keymap (lines 34-39): any failure of open or json.load gives {}
load_keymap(d) ==
    IF d.kind \in {"absent", "corrupt"} THEN [kind |-> "dict", map |-> EmptyMap]
    ELSE d

\* the record is not written although nothing raised
save_keymap_lost(d, m, how) ==
    IF how = "partial" THEN [kind |-> "corrupt", map |-> EmptyMap] ELSE d

\* the write merges the record into what the file holds at that moment
\* instead of replacing the file
save_keymap_merging(d, m, how) ==
    CASE how = "ok"      -> [kind |-> "dict",
                             map |-> [t \in Tenants |-> IF m[t] # None THEN m[t] ELSE d.map[t]]]
      [] how = "noopen"  -> d
      [] how = "partial" -> [kind |-> "corrupt", map |-> EmptyMap]

\* save_keymap (lines 41-47): the file after the call
save_keymap(d, m, how) ==
    CASE how = "ok"      -> [kind |-> "dict", map |-> m]
      [] how = "noopen"  -> d
      [] how = "partial" -> [kind |-> "corrupt", map |-> EmptyMap]

\* the try/except of save_keymap left out: a failed write raises
save_raises_on_failure(how) == how # "ok"

\* lines 46-47: save_keymap swallows every exception of the write
save_raises(how) == FALSE

\* the check of line 78 left out
RingEmpty_unchecked(ring) == FALSE

\* line 78: "if not keyring"
RingEmpty(ring) == ring = <<>>

\* an except clause that names the request errors only: a key file that
\* cannot be read or signed with ends the call
Caught_requests_only(o) == o # "keyerr"

\* lines 122-125: a response that is not ok takes the else branch, every
\* exception of the iteration is caught by "except Exception"
Caught(o) == TRUE

\* the first failure is kept instead of the latest
RecordErr_first(prev, o, e) == IF prev = NoErr THEN [kind |-> o, at |-> e] ELSE prev

\* lines 123 and 125: last_err is overwritten with the failure of this
\* iteration; the entry stands for the detail text of that failure
RecordErr(prev, o, e) == [kind |-> o, at |-> e]

\* --------------------------------------------------------------- actions

\* no run has started: the locals of every instance are as the script sets
\* them first
Parked ==
    /\ pc = [p \in Procs |-> "Idle"]
    /\ keyring = [p \in Procs |-> <<>>]
    /\ keymap = [p \in Procs |-> EmptyMap]
    /\ preferred_kid = [p \in Procs |-> None]
    /\ ordered = [p \in Procs |-> <<>>]
    /\ idx = [p \in Procs |-> 1]
    /\ last_err = [p \in Procs |-> NoErr]
    /\ result = [p \in Procs |-> NoResult]
    /\ attempts = [p \in Procs |-> <<>>]
    /\ outcome = [p \in Procs |-> None]
    /\ nsaves = [p \in Procs |-> 0]
    /\ lastsave = [p \in Procs |-> None]
    /\ snap0 = [p \in Procs |-> disk]
    /\ ncalls = 0
    /\ learned = [p \in Procs |-> NoLearned]

Init ==
    /\ cfg \in Configs
    /\ disk \in InitSnapshots
    /\ Parked
    /\ working = {}
    /\ arg = None
    /\ ret = None

Terminal == {"Success", "Exhausted", "ConfigError", "Crashed"}

Ended(p, how, kind, e, err) ==
    /\ pc' = [pc EXCEPT ![p] = how]
    /\ result' = [result EXCEPT ![p] =
                    [kind |-> kind, tenant |-> TENANT_ID[p], by |-> e, err |-> err]]

\* Start of a run: the module-level checks (lines 28-31).
Launch(p) ==
    /\ pc[p] \in Terminal \cup {"Idle"}
    /\ ncalls < MaxCalls
    /\ ncalls' = ncalls + 1
    /\ keyring' = [keyring EXCEPT ![p] = <<>>]
    /\ keymap' = [keymap EXCEPT ![p] = EmptyMap]
    /\ preferred_kid' = [preferred_kid EXCEPT ![p] = None]
    /\ ordered' = [ordered EXCEPT ![p] = <<>>]
    /\ idx' = [idx EXCEPT ![p] = 1]
    /\ last_err' = [last_err EXCEPT ![p] = NoErr]
    /\ attempts' = [attempts EXCEPT ![p] = <<>>]
    /\ outcome' = [outcome EXCEPT ![p] = None]
    /\ nsaves' = [nsaves EXCEPT ![p] = 0]
    /\ lastsave' = [lastsave EXCEPT ![p] = None]
    /\ snap0' = [snap0 EXCEPT ![p] = disk]
    /\ IF ~cfg.ident \/ (cfg.KEYS = <<>> /\ ~cfg.PRIVATE_KEY_PATH)
       THEN /\ Ended(p, "ConfigError", "SystemExit", NoEntry, NoErr)
            /\ learned' = [learned EXCEPT ![p] = NoLearned]
       ELSE /\ pc' = [pc EXCEPT ![p] = "Init"]
            /\ result' = [result EXCEPT ![p] = NoResult]
            /\ UNCHANGED learned
    /\ UNCHANGED <<cfg, disk, aux>>

\* lines 76-79: build the ring, exit when it is empty
LoadRing(p) ==
    /\ pc[p] = "Init"
    /\ LET ring == parse_keyring(cfg)
       IN  /\ keyring' = [keyring EXCEPT ![p] = ring]
           /\ IF RingEmpty(ring)
              THEN /\ Ended(p, "ConfigError", "SystemExit", NoEntry, NoErr)
                   /\ learned' = [learned EXCEPT ![p] = NoLearned]
              ELSE /\ pc' = [pc EXCEPT ![p] = "RingLoaded"]
                   /\ UNCHANGED <<result, learned>>
    /\ UNCHANGED <<cfg, disk, keymap, preferred_kid, ordered, idx, last_err,
                   attempts, outcome, nsaves, lastsave, snap0, ncalls, aux>>

\* lines 81-91: load the snapshot, look the tenant up, order the candidates.
\* keymap.get on a value that is not a dict raises AttributeError outside any try.
LoadHint(p) ==
    /\ pc[p] = "RingLoaded"
    /\ snap0' = [snap0 EXCEPT ![p] = disk]
    /\ LET m == load_keymap(disk)
       IN  IF m.kind # "dict"
           THEN /\ Ended(p, "Crashed", "AttributeError", NoEntry, NoErr)
                /\ learned' = [learned EXCEPT ![p] = NoLearned]
                /\ UNCHANGED <<keymap, preferred_kid, ordered>>
           ELSE /\ keymap' = [keymap EXCEPT ![p] = m.map]
                /\ preferred_kid' = [preferred_kid EXCEPT ![p] = m.map[TENANT_ID[p]]]
                /\ ordered' = [ordered EXCEPT ![p] = Ordered(keyring[p], m.map[TENANT_ID[p]])]
                /\ pc' = [pc EXCEPT ![p] = "Trying"]
                /\ UNCHANGED <<result, learned>>
    /\ UNCHANGED <<cfg, disk, keyring, idx, last_err, attempts, outcome, nsaves, lastsave,
                   ncalls, aux>>

\* a fresh record with the tenant's entry alone is written
Remember_alone(m, t, kid) == [EmptyMap EXCEPT ![t] = kid]

\* an entry the record already holds is kept
Remember_first_wins(m, t, kid) == IF m[t] = None THEN [m EXCEPT ![t] = kid] ELSE m

\* line 119: keymap[TENANT_ID] = kid
Remember(m, t, kid) == [m EXCEPT ![t] = kid]

\* lines 92-125: one iteration of the candidate loop on ordered[idx], meeting
\* outcome o, and s in save_keymap when it comes to that
Iteration(p, o, s) ==
    /\ pc[p] = "Trying"
    /\ idx[p] <= Len(ordered[p])
    /\ LET e     == ordered[p][idx[p]]
           km    == Remember(keymap[p], TENANT_ID[p], e.kid)
           wrote == o \in {"ok", "badbody"}
           won   == o = "ok" /\ ~save_raises(s)
       IN  /\ wrote \/ s = "ok"
           /\ attempts' = [attempts EXCEPT ![p] = Append(@, e)]
           /\ outcome' = [outcome EXCEPT ![p] = o]
           /\ IF wrote
              THEN /\ keymap' = [keymap EXCEPT ![p] = km]
                   /\ nsaves' = [nsaves EXCEPT ![p] = @ + 1]
                   /\ lastsave' = [lastsave EXCEPT ![p] = s]
                   /\ disk' = save_keymap(disk, km, s)
              ELSE UNCHANGED <<keymap, nsaves, lastsave, disk>>
           /\ IF won
              THEN /\ Ended(p, "Success", "token", e, NoErr)
                   /\ learned' = [learned EXCEPT ![p] =
                                    [by |-> e, saved |-> s = "ok",
                                     moved |-> preferred_kid[p] # e.kid, disk |-> disk']]
                   /\ UNCHANGED <<idx, last_err>>
              ELSE IF Caught(o)
              THEN /\ last_err' = [last_err EXCEPT ![p] = RecordErr(@, o, e)]
                   /\ idx' = [idx EXCEPT ![p] = @ + 1]
                   /\ UNCHANGED <<pc, result, learned>>
              ELSE /\ Ended(p, "Crashed", o, e, NoErr)
                   /\ learned' = [learned EXCEPT ![p] = NoLearned]
                   /\ UNCHANGED <<idx, last_err>>
    /\ UNCHANGED <<cfg, keyring, preferred_kid, ordered, snap0, ncalls, aux>>

\* an iteration in a world where any key may work or fail at any moment
Try(p) == \E o \in Outcomes, s \in SaveOutcomes : Iteration(p, o, s)

\* line 128: every candidate failed
Exhaust(p) ==
    /\ pc[p] = "Trying"
    /\ idx[p] > Len(ordered[p])
    /\ Ended(p, "Exhausted", "RuntimeError", NoEntry, last_err[p])
    /\ learned' = [learned EXCEPT ![p] = NoLearned]
    /\ UNCHANGED <<cfg, disk, keyring, keymap, preferred_kid, ordered, idx, last_err,
                   attempts, outcome, nsaves, lastsave, snap0, ncalls, aux>>

Next ==
    \E p \in Sequential :
        \/ Launch(p)
        \/ LoadRing(p)
        \/ LoadHint(p)
        \/ Try(p)
        \/ Exhaust(p)

Spec == Init /\ [][Next]_vars

\* ------------------------------------------- the attempt order on its own

\* SF_KEYS made of well-formed parts only, and the ring parse_keyring gives
PairSpecs ==
    {s \in SeqsUpTo([kind : {"pair"}, kid : KeyIds], MaxRing) : s # <<>> /\ Canonical(s)}

Locations(ring) == {ring[i].path : i \in 1..Len(ring)}

\* lines 92-125 when exactly the entries with a location in W yield a token:
\* the number of iterations of the loop over order
RECURSIVE AttemptsMade(_, _)
AttemptsMade(order, W) ==
    IF order = <<>> THEN 0
    ELSE IF Head(order).path \in W THEN 1
    ELSE 1 + AttemptsMade(Tail(order), W)

\* the function under study has not returned yet
Pending == [done |-> FALSE]

\* a ring, a value of keymap.get(TENANT_ID) and the keys that work
InitOrder ==
    /\ cfg \in [ident : {TRUE}, KEYS : PairSpecs, PRIVATE_KEY_PATH : {FALSE}]
    /\ disk = [kind |-> "absent", map |-> EmptyMap]
    /\ Parked
    /\ working \in SUBSET Locations(parse_keyring(cfg))
    /\ arg \in [ring : {parse_keyring(cfg)}, hint : HintVals \cup {None}]
    /\ ret = Pending

\* lines 85-92: order the ring by the hint and walk it
OrderRing ==
    /\ ~ret.done
    /\ LET o == Ordered(arg.ring, arg.hint)
       IN  ret' = [done |-> TRUE, ordered |-> o, n |-> AttemptsMade(o, working)]
    /\ UNCHANGED <<cfg, disk, pc, keyring, keymap, preferred_kid, ordered, idx, last_err,
                   result, attempts, outcome, nsaves, lastsave, snap0, ncalls, learned,
                   working, arg>>

NextOrder == OrderRing

SpecOrder == InitOrder /\ [][NextOrder]_vars

\* ------------------------------------------------- parse_keyring on text

\* characters of SF_KEYS: a letter of an id or a location, the two delimiters,
\* white space, and the home marker that expanduser rewrites
Chars == {"a", ":", ",", " ", "~"}

Texts == SeqsUpTo(Chars, MaxText)

\* the directory expanduser puts in place of "~"
Home == <<"/home">>

\* str.strip() (lines 21, 58 and 64)
RECURSIVE lstrip(_)
lstrip(s) == IF s # <<>> /\ Head(s) = " " THEN lstrip(Tail(s)) ELSE s

RECURSIVE rstrip(_)
rstrip(s) == IF s # <<>> /\ s[Len(s)] = " " THEN rstrip(SubSeq(s, 1, Len(s) - 1)) ELSE s

strip(s) == rstrip(lstrip(s))

Has(s, ch) == \E i \in 1..Len(s) : s[i] = ch

First(s, ch) == CHOOSE i \in 1..Len(s) : s[i] = ch /\ \A j \in 1..(i - 1) : s[j] # ch

\* str.split(sep) (line 57)
RECURSIVE split(_, _)
split(s, sep) ==
    IF ~Has(s, sep) THEN <<s>>
    ELSE LET i == First(s, sep)
         IN  <<SubSeq(s, 1, i - 1)>> \o split(SubSeq(s, i + 1, Len(s)), sep)

\* the part is cut at its last ':' (rsplit) instead of its first
partition_right(part) ==
    LET i == CHOOSE k \in 1..Len(part) :
                 part[k] = ":" /\ \A j \in (k + 1)..Len(part) : part[j] # ":"
    IN  [kid |-> SubSeq(part, 1, i - 1), path |-> SubSeq(part, i + 1, Len(part))]

\* part.split(":", 1) of a part that holds a ':' (line 63)
partition(part) ==
    LET i == First(part, ":")
    IN  [kid |-> SubSeq(part, 1, i - 1), path |-> SubSeq(part, i + 1, Len(part))]

\* os.path.expanduser (line 64): "~" alone, the only form the alphabet can
\* write that names the current user, becomes the home directory; "~name" of
\* a user the system does not know, and every other text, is returned as is
expanduser(path) == IF path = <<"~">> THEN Home ELSE path

\* lines 57-64 on the fields of SF_KEYS
RECURSIVE parse_fields(_)
parse_fields(fields) ==
    IF fields = <<>> THEN <<>>
    ELSE LET part == strip(Head(fields))
             rest == parse_fields(Tail(fields))
         IN  IF part = <<>> THEN rest
             ELSE IF ~Has(part, ":") THEN rest
             ELSE LET kp == partition(part)
                  IN  <<[kid |-> strip(kp.kid), path |-> expanduser(strip(kp.path))]>> \o rest

\* parse_keyring (lines 49-67) with SF_KEYS read as text (line 21)
parse_keyring_text(c) ==
    LET KEYS == strip(c.KEYS)
    IN  IF KEYS # <<>> THEN parse_fields(split(KEYS, ","))
        ELSE IF c.PRIVATE_KEY_PATH THEN <<[kid |-> <<"default">>, path |-> Home]>>
        ELSE <<>>

\* the environment with SF_KEYS as text; SF_PRIVATE_KEY_PATH is varied where it
\* is read: when SF_KEYS is empty
InitParse ==
    /\ cfg \in {c \in [ident : {TRUE}, KEYS : Texts, PRIVATE_KEY_PATH : BOOLEAN] :
                    strip(c.KEYS) # <<>> => ~c.PRIVATE_KEY_PATH}
    /\ disk = [kind |-> "absent", map |-> EmptyMap]
    /\ Parked
    /\ working = {}
    /\ arg = None
    /\ ret = Pending

\* line 77: keyring = parse_keyring()
ParseRing ==
    /\ ~ret.done
    /\ ret' = [done |-> TRUE, ring |-> parse_keyring_text(cfg)]
    /\ UNCHANGED <<cfg, disk, pc, keyring, keymap, preferred_kid, ordered, idx, last_err,
                   result, attempts, outcome, nsaves, lastsave, snap0, ncalls, learned,
                   working, arg>>

NextParse == ParseRing

SpecParse == InitParse /\ [][NextParse]_vars

\* ------------------------------------------------- audience and endpoint

\* a text is the sequence of its pieces; the pieces SF_DOMAIN is written with
DomainTokens == {"login", "test", "acme", ".", " "}

\* the variable SF_DOMAIN in the environment: unset, or a text
DomainEnvs ==
    [set : {FALSE}, value : {<<>>}]
    \cup [set : {TRUE}, value : SeqsUpTo(DomainTokens, MaxDomain)]

\* line 17: os.environ.get("SF_DOMAIN", "login").strip()
Domain(e) == strip(IF e.set THEN e.value ELSE <<"login">>)

\* audience_from_domain (lines 69-73)
audience_from_domain(domain) ==
    IF domain \in {<<"login">>, <<"test">>}
    THEN <<"https://">> \o domain \o <<".salesforce.com">>
    ELSE <<"https://">> \o domain

\* the production login host written into the request instead of aud
Endpoint_login_only(aud) == <<"https://", "login", ".salesforce.com", "/services/oauth2/token">>

\* line 108: f"{aud}/services/oauth2/token"
Endpoint(aud) == aud \o <<"/services/oauth2/token">>

InitAud ==
    /\ cfg = [ident |-> TRUE, KEYS |-> <<>>, PRIVATE_KEY_PATH |-> TRUE]
    /\ disk = [kind |-> "absent", map |-> EmptyMap]
    /\ Parked
    /\ working = {}
    /\ arg \in DomainEnvs
    /\ ret = Pending

function_frame ==
    UNCHANGED <<cfg, disk, pc, keyring, keymap, preferred_kid, ordered, idx, last_err,
                result, attempts, outcome, nsaves, lastsave, snap0, ncalls, learned,
                working, arg>>

\* line 76: aud = audience_from_domain(SF_DOMAIN)
Audience ==
    /\ ~ret.done
    /\ ret' = [done |-> TRUE, aud |-> audience_from_domain(Domain(arg)), posts |-> <<>>]
    /\ function_frame

\* lines 98-114: one assertion is built and posted; a call posts at most one
\* per ring entry
PostAssertion ==
    /\ ret.done
    /\ Len(ret.posts) < MaxRing
    /\ ret' = [ret EXCEPT !.posts =
                  Append(@, [payload_aud |-> ret.aud, url |-> Endpoint(ret.aud)])]
    /\ function_frame

NextAud == Audience \/ PostAssertion

SpecAud == InitAud /\ [][NextAud]_vars

\* ------------------------------------ two instances and keys that work

\* the instances of both tenants run with the same key material, a ring of
\* well-formed parts with non-empty ids; which keys the provider accepts is
\* fixed for the whole behavior
InitConc ==
    /\ cfg \in {c \in Configs :
                    /\ c.ident
                    /\ \A i \in 1..Len(c.KEYS) : c.KEYS[i].kind = "pair" /\ c.KEYS[i].kid # ""}
    /\ disk \in InitSnapshots
    /\ Parked
    /\ working \in SUBSET Locations(parse_keyring(cfg))
    /\ arg = None
    /\ ret = None

\* each instance makes one call
LaunchOnce(p) == pc[p] = "Idle" /\ Launch(p)

\* what an iteration meets when the keys in working, and only they, yield a
\* token: a key that does not work is refused (not resp.ok) or answered with a
\* body that lacks the token fields
FixedOutcomes == {"httpfail", "badbody", "ok"}

TryFixed(p) ==
    \E o \in FixedOutcomes, s \in SaveOutcomes :
        /\ pc[p] = "Trying"
        /\ idx[p] <= Len(ordered[p])
        /\ (o = "ok") <=> (ordered[p][idx[p]].path \in working)
        /\ Iteration(p, o, s)

NextConc ==
    \E p \in Procs :
        \/ LaunchOnce(p)
        \/ LoadRing(p)
        \/ LoadHint(p)
        \/ TryFixed(p)
        \/ Exhaust(p)

SpecConc == InitConc /\ [][NextConc]_vars

\* ------------------------------------------------------------ properties

\* the run has computed its attempt order (it is in or past the loop)
InLoop(p) == pc[p] \in {"Trying", "Success", "Exhausted"}

Last(seq) == seq[Len(seq)]

IsPrefix(a, b) == Len(a) <= Len(b) /\ \A i \in 1..Len(a) : a[i] = b[i]

\* C1: with no hint stored for the tenant, the entries are attempted in the
\* ring's order, the call returns the token of the first entry whose exchange
\* yields one, and nothing is attempted after it; it gives up only after the
\* whole ring.
FallbackOrder ==
    \A p \in Procs :
        (InLoop(p) /\ preferred_kid[p] = None) =>
            /\ IsPrefix(attempts[p], keyring[p])
            /\ outcome[p] = "ok" <=> pc[p] = "Success"
            /\ pc[p] = "Success" => result[p].by = Last(attempts[p])
            /\ pc[p] = "Exhausted" => attempts[p] = keyring[p]

\* no hint, the first entry failed, the second returned the token
FallbackOrderWitness ==
    /\ pc["p1"] = "Success"
    /\ preferred_kid["p1"] = None
    /\ Len(attempts["p1"]) = 2
    /\ result["p1"].by = keyring["p1"][2]

\* C2 (as claimed): a hint equal to the id of a ring entry puts the entries of
\* that id first, the others follow, and neither group is reordered.
HintReordering ==
    \A p \in Procs :
        (InLoop(p) /\ \E i \in 1..Len(keyring[p]) : keyring[p][i].kid = preferred_kid[p]) =>
            /\ ordered[p][1].kid = preferred_kid[p]
            /\ Len(ordered[p]) = Len(keyring[p])
            /\ \A w \in BOOLEAN :
                 Matching(ordered[p], preferred_kid[p], w) = Matching(keyring[p], preferred_kid[p], w)

ExhaustionLeavesStore ==
    \A p \in Procs : pc[p] = "Exhausted" => (nsaves[p] = 0 /\ disk = snap0[p])

\* C5 (as claimed): no run calls save_keymap twice, a run that returns a token
\* calls it once, with the tenant set to the id of the winning candidate.
OneWritePerAcquisition ==
    \A p \in Procs :
        /\ nsaves[p] <= 1
        /\ pc[p] = "Success" =>
              (nsaves[p] = 1 /\ keymap[p][TENANT_ID[p]] = result[p].by.kid)

\* C6 (as claimed): a snapshot that is absent, unreadable or malformed is an
\* empty record: the run goes on with the ring's order.
BadSnapshotIsEmpty ==
    \A p \in Procs :
        (pc[p] \in {"Trying", "Success", "Exhausted", "Crashed"} /\ snap0[p].kind # "dict") =>
            (pc[p] # "Crashed" /\ ordered[p] = keyring[p])

\* C7: when a candidate's exchange yielded a token and the write of the
\* snapshot failed, the call still returns that candidate's token.
SaveFailureHarmless ==
    \A p \in Procs :
        (outcome[p] = "ok" /\ lastsave[p] \in {"noopen", "partial"}) =>
            /\ pc[p] = "Success"
            /\ result[p].kind = "token"
            /\ result[p].by = Last(attempts[p])

\* the write truncated the file, the token is returned
SaveFailureHarmlessWitness ==
    /\ pc["p1"] = "Success"
    /\ lastsave["p1"] = "partial"
    /\ disk.kind = "corrupt"
    /\ result["p1"].kind = "token"

\* C8: after a failed candidate the call goes on with the next one; once the
\* loop has started, a call that does not return a token ends only after the
\* whole ring, with the RuntimeError of line 128.
CandidateFailureContinues ==
    \A p \in Procs :
        (Len(attempts[p]) > 0 /\ outcome[p] # "ok") =>
            \/ /\ pc[p] = "Trying"
               /\ result[p] = NoResult
               /\ idx[p] = Len(attempts[p]) + 1
            \/ /\ pc[p] = "Exhausted"
               /\ result[p].kind = "RuntimeError"
               /\ Len(attempts[p]) = Len(keyring[p])
               /\ \A i \in 1..Len(keyring[p]) : \E j \in 1..Len(attempts[p]) :
                      attempts[p][j] = keyring[p][i]

\* the first key could not be read, the second was tried and failed too
CandidateFailureContinuesWitness ==
    /\ pc["p1"] = "Exhausted"
    /\ Len(attempts["p1"]) = 2
    /\ outcome["p1"] = "keyerr"
    /\ result["p1"].err.kind = "keyerr"

\* C9: the error of an exhausted call names the tenant and holds the failure
\* of the last candidate in attempt order, and no other.
ExhaustionReportsLast ==
    \A p \in Procs :
        pc[p] = "Exhausted" =>
            /\ result[p].kind = "RuntimeError"
            /\ result[p].tenant = TENANT_ID[p]
            /\ result[p].err.at = Last(ordered[p])
            /\ result[p].err.kind = outcome[p]

\* two candidates failed in different ways, the error holds the second
ExhaustionReportsLastWitness ==
    /\ pc["p1"] = "Exhausted"
    /\ Len(ordered["p1"]) = 2
    /\ outcome["p1"] = "httpfail"
    /\ result["p1"].err = [kind |-> "httpfail", at |-> ordered["p1"][2]]
    /\ preferred_kid["p1"] = "b"

\* the configuration yields no pair and no fallback location
NoKeyMaterial == ~HasPair(cfg.KEYS) /\ ~cfg.PRIVATE_KEY_PATH

\* C10: with no pair and no fallback location the run ends in SystemExit
\* before any key is opened or posted; no run is in the loop with an empty ring.
EmptyRingIsConfigError ==
    \A p \in Procs :
        /\ NoKeyMaterial =>
              /\ pc[p] \in {"Idle", "Init", "ConfigError"}
              /\ attempts[p] = <<>>
              /\ pc[p] = "ConfigError" => result[p].kind = "SystemExit"
        /\ (pc[p] \in {"RingLoaded", "Trying", "Success", "Exhausted", "Crashed"}
              \/ Len(attempts[p]) > 0) => keyring[p] # <<>>

\* SF_KEYS holds text but no pair: the exit of line 79 is taken
EmptyRingIsConfigErrorWitness ==
    /\ NoKeyMaterial
    /\ cfg.ident
    /\ cfg.KEYS # <<>>
    /\ pc["p1"] = "ConfigError"
    /\ result["p1"].kind = "SystemExit"

\* the hint names at least one entry of the ring
Names(ring, h) == \E i \in 1..Len(ring) : ring[i].kid = h

\* C11: when the stored hint for the tenant matches no entry id of the ring,
\* the attempt order is exactly the ring's original order.
StaleHintKeepsOrder ==
    (ret.done /\ arg.hint # None /\ ~Names(arg.ring, arg.hint)) => ret.ordered = arg.ring

StaleHintKeepsOrderWitness ==
    /\ ret.done
    /\ arg.hint = "z"
    /\ Len(arg.ring) = 3
    /\ arg.ring[1].kid # arg.ring[2].kid
    /\ ret.ordered = arg.ring

\* the fields of a text: where each starts, where it ends, its ':' positions
FieldStarts(t) == {1} \cup {i + 1 : i \in {j \in 1..Len(t) : t[j] = ","}}

FieldEnd(t, s) ==
    CHOOSE e \in (s - 1)..Len(t) :
        /\ e = Len(t) \/ t[e + 1] = ","
        /\ \A j \in s..e : t[j] # ","

Colons(t, s) == {i \in s..FieldEnd(t, s) : t[i] = ":"}

WellFormed(t) == {s \in FieldStarts(t) : Colons(t, s) # {}}

Least(S) == CHOOSE x \in S : \A y \in S : x <= y

\* C12: parse_keyring returns exactly the well-formed id:location entries of
\* SF_KEYS in their original order: the k-th entry of the result is the k-th
\* field that holds a ':', cut at its first ':', with its id and (home-expanded)
\* location stripped; fields without ':' are skipped, fields with a repeated id
\* are all kept, nothing is reordered.
ParseKeepsEntries ==
    LET t == strip(cfg.KEYS)
    IN  (ret.done /\ t # <<>>) =>
            /\ Len(ret.ring) = Cardinality(WellFormed(t))
            /\ \A s \in WellFormed(t) :
                   LET k == Cardinality({u \in WellFormed(t) : u <= s})
                       c == Least(Colons(t, s))
                   IN  /\ ret.ring[k].kid = strip(SubSeq(t, s, c - 1))
                       /\ ret.ring[k].path = expanduser(strip(SubSeq(t, c + 1, FieldEnd(t, s))))

\* "a,:,:~": a field without ':' is skipped and the two fields that follow,
\* both with the empty id, are kept in their order
ParseKeepsEntriesWitness ==
    /\ ret.done
    /\ cfg.KEYS = <<"a", ",", ":", ",", ":", "~">>
    /\ ret.ring = <<[kid |-> <<>>, path |-> <<>>], [kid |-> <<>>, path |-> Home]>>

\* scheme and host of a request URL: the URL without its path
HostOf(url) == SubSeq(url, 1, Len(url) - 1)

\* C13: audience_from_domain maps "login" to https://login.salesforce.com,
\* "test" to https://test.salesforce.com and any other value x to https://x,
\* and every assertion carries as its aud claim the scheme and host of the
\* token endpoint it is posted to.
AudienceIsEndpointHost ==
    ret.done =>
        LET x == Domain(arg)
        IN  /\ x = <<"login">> => ret.aud = <<"https://", "login", ".salesforce.com">>
            /\ x = <<"test">> => ret.aud = <<"https://", "test", ".salesforce.com">>
            /\ x \notin {<<"login">>, <<"test">>} => ret.aud = <<"https://">> \o x
            /\ \A i \in 1..Len(ret.posts) :
                   /\ ret.posts[i].payload_aud = ret.aud
                   /\ HostOf(ret.posts[i].url) = ret.posts[i].payload_aud
                   /\ Last(ret.posts[i].url) = "/services/oauth2/token"

AudienceIsEndpointHostWitness ==
    /\ ret.done
    /\ arg.value = <<"test", " ">>
    /\ Len(ret.posts) = 2
    /\ ret.posts[2].url = <<"https://", "test", ".salesforce.com", "/services/oauth2/token">>

\* the fewest attempts any stored value could have led to, for this ring and
\* these working keys
BestAttempts ==
    Least({AttemptsMade(Ordered(arg.ring, h), working) : h \in HintVals \cup {None}})

\* the hint is lost (nothing stored), or stale: it names entries, all failing
StaleOrLost ==
    \/ arg.hint = None
    \/ /\ Names(arg.ring, arg.hint)
       /\ \A i \in 1..Len(arg.ring) :
              arg.ring[i].kid = arg.hint => arg.ring[i].path \notin working

\* C14 (as claimed): with a stale or a lost hint the call makes at most one
\* attempt more than with the best possible hint.
StaleHintCostsOne ==
    (ret.done /\ StaleOrLost) => ret.n <= BestAttempts + 1

\* C14 (amended): with a stale or a lost hint the call makes at most
\* |ring| - 1 attempts more than with the best possible hint (one more for a
\* ring of two), and it still ends on a working key when there is one.
StaleHintCost ==
    (ret.done /\ StaleOrLost) =>
        /\ ret.n <= BestAttempts + Len(arg.ring) - 1
        /\ ret.n <= Len(arg.ring)
        /\ (working # {}) => ret.ordered[ret.n].path \in working

\* the bound is met: three entries, the hint names the first, only the last works
StaleHintCostWitness ==
    /\ ret.done
    /\ Len(arg.ring) = 3
    /\ arg.hint = arg.ring[1].kid
    /\ arg.hint = "a"
    /\ working = {arg.ring[3].path}
    /\ ret.n = 3
    /\ BestAttempts = 1

\* every entry of ring is in order exactly once (entries differ by location)
IsPermutation(order, ring) ==
    /\ Len(order) = Len(ring)
    /\ \A i \in 1..Len(ring) :
           Cardinality({j \in 1..Len(order) : order[j] = ring[i]}) = 1

\* the entries with id h fill the first places of order, and both they and
\* the entries after them stand in the order of their locations in SF_KEYS
FrontLoaded(order, h) ==
    LET k == Cardinality({i \in 1..Len(order) : order[i].kid = h})
    IN  /\ \A i \in 1..Len(order) : (order[i].kid = h) <=> (i <= k)
        /\ \A i, j \in 1..Len(order) :
               (i < j /\ ((j <= k) \/ (i > k))) => order[i].path < order[j].path

\* C18: for every ring and every hint the attempt order is a permutation of
\* the ring, and when the hint matches several entries with the same id, all
\* of them move to the front in their original relative order.
OrderIsHintedPermutation ==
    ret.done =>
        /\ IsPermutation(ret.ordered, arg.ring)
        /\ Cardinality({i \in 1..Len(arg.ring) : arg.ring[i].kid = arg.hint}) > 1
              => FrontLoaded(ret.ordered, arg.hint)

\* the call of p is over
Finished(p) == pc[p] \in Terminal

SomeKeyWorks(p) == \E i \in 1..Len(keyring[p]) : keyring[p][i].path \in working

\* C15: whatever the snapshot file holds and however the calls interleave, a
\* call returns a token if and only if at least one entry of its ring works.
TokenIffSomeKeyWorks ==
    \A p \in Procs :
        Finished(p) => (pc[p] = "Success" <=> SomeKeyWorks(p))

\* C16: every completed write of a call leaves in the file exactly the record
\* that call loaded plus its own tenant's entry, whatever the other call wrote
\* in between; so after both calls the file is the record of the call that
\* saved last, with that call's entry in it.
LastWriterWins ==
    [][\A p \in Procs :
          (nsaves'[p] = nsaves[p] + 1 /\ lastsave'[p] = "ok") =>
              /\ disk' = [kind |-> "dict",
                          map |-> Remember(load_keymap(snap0[p]).map, TENANT_ID[p],
                                           Last(attempts'[p]).kid)]
              /\ disk'.map[TENANT_ID[p]] # None]_vars

\* both calls loaded the empty file, both won and saved: the entry of the
\* first tenant is not in the file
LastWriterWinsWitness ==
    /\ pc["p1"] = "Success" /\ pc["p2"] = "Success"
    /\ lastsave["p1"] = "ok" /\ lastsave["p2"] = "ok"
    /\ snap0["p1"].kind = "absent" /\ snap0["p2"].kind = "absent"
    /\ disk.kind = "dict"
    /\ disk.map["t1"] = None
    /\ disk.map["t2"] = result["p2"].by.kid

\* the module-level checks of lines 28-31 pass: the run calls
\* get_access_token_via_jwt
CallsAcquisition == cfg.ident /\ (cfg.KEYS # <<>> \/ cfg.PRIVATE_KEY_PATH)

\* C17 (as claimed): every acquisition call ends in Success or Exhausted.
EndsInSuccessOrExhausted ==
    \A p \in Procs : (CallsAcquisition /\ Finished(p)) => pc[p] \in {"Success", "Exhausted"}

NoRepeat(seq) == \A i, j \in 1..Len(seq) : seq[i] = seq[j] => i = j

\* one step, seen from instance p.  HintComputed is "Trying" before the first
\* attempt, TryingCandidate(i) is "Trying" with idx = i.
StepOfCall(p) ==
    \/ \* not a step of p
       pc'[p] = pc[p] /\ idx'[p] = idx[p] /\ attempts'[p] = attempts[p]
    \/ \* a new call; nothing else leaves a terminal state
       /\ pc[p] \in Terminal \cup {"Idle"}
       /\ ncalls' = ncalls + 1
       /\ pc'[p] \in {"Init", "ConfigError"}
       /\ idx'[p] = 1 /\ attempts'[p] = <<>>
    \/ /\ pc[p] = "Init"
       /\ pc'[p] \in {"RingLoaded", "ConfigError"}
       /\ pc'[p] = "ConfigError" <=> keyring'[p] = <<>>
       /\ idx'[p] = 1 /\ attempts'[p] = <<>>
    \/ /\ pc[p] = "RingLoaded"
       /\ pc'[p] \in {"Trying", "Crashed"}
       /\ pc'[p] = "Crashed" <=> disk.kind = "nondict"
       /\ pc'[p] = "Trying" => IsPermutation(ordered'[p], keyring[p])
       /\ idx'[p] = 1 /\ attempts'[p] = <<>>
    \/ \* candidate idx is attempted: the call wins or moves to idx + 1
       /\ pc[p] = "Trying"
       /\ idx[p] <= Len(keyring[p])
       /\ attempts'[p] = Append(attempts[p], ordered[p][idx[p]])
       /\ NoRepeat(attempts'[p])
       /\ Len(attempts'[p]) <= Len(keyring[p])
       /\ \/ pc'[p] = "Success" /\ idx'[p] = idx[p]
          \/ pc'[p] = "Trying" /\ idx'[p] = idx[p] + 1
    \/ /\ pc[p] = "Trying"
       /\ idx[p] = Len(keyring[p]) + 1
       /\ pc'[p] = "Exhausted"
       /\ idx'[p] = idx[p] /\ attempts'[p] = attempts[p]
       /\ Len(attempts[p]) = Len(keyring[p])

\* C17 (amended): a call moves Init -> RingLoaded -> HintComputed ->
\* TryingCandidate(1), (2), ... and ends in Success or Exhausted after at most
\* |ring| attempts, the index only growing and no candidate tried twice; it can
\* also end before the first attempt, from Init with the configuration exit
\* (empty ring) and from RingLoaded with the uncaught error on a snapshot that
\* is not an object; nothing follows a terminal state but a new call.
CallStateMachine == [][\A p \in Procs : StepOfCall(p)]_vars

\* the hinted second entry failed, then the first: Exhausted after |ring| attempts
CallStateMachineWitness ==
    /\ pc["p1"] = "Exhausted"
    /\ Len(keyring["p1"]) = 2
    /\ attempts["p1"] = <<keyring["p1"][2], keyring["p1"][1]>>
    /\ idx["p1"] = 3

\* C19: a successful acquisition for tenant T leaves the entry of every other
\* tenant as it was loaded, in the record handed to save_keymap and in the
\* file once the write completed.
OtherTenantsKept ==
    \A p \in Procs :
        pc[p] = "Success" =>
            \A t \in Tenants \ {TENANT_ID[p]} :
                /\ keymap[p][t] = load_keymap(snap0[p]).map[t]
                /\ lastsave[p] = "ok" => (disk.kind = "dict" /\ disk.map[t] = snap0[p].map[t])

OtherTenantsKeptWitness ==
    /\ pc["p1"] = "Success"
    /\ lastsave["p1"] = "ok"
    /\ snap0["p1"].kind = "dict"
    /\ snap0["p1"].map["t2"] = "z"
    /\ disk.map["t2"] = "z"
    /\ disk.map["t1"] # snap0["p1"].map["t1"]

\* the instance p has just stored an id for its tenant
Stores(p) == nsaves'[p] = nsaves[p] + 1

====
